---- MODULE Spec2Model ----
(***************************************************************************)
(* Transactional ledger and inventory accounting of enhanced_pos.py:       *)
(* DatabaseManager (products, customers, transactions, transaction_items,  *)
(* stock_movements, daily_stock) and the sales / purchase entry forms of   *)
(* POSApp that compose the calls to add_sale / add_purchase.               *)
(*                                                                         *)
(* Numbers.  Every REAL column and every float of the program is held as   *)
(* an integer number of thousandths (1.00 is 1000, 0.125 is 125).  The     *)
(* inputs are dyadic rationals with at most three decimals, on which the   *)
(* program's float arithmetic is exact, so that "%.2f" formatting is the   *)
(* round-half-to-even of Round2 below.                                     *)
(*                                                                         *)
(* Row ids.  An id is the position of the row in its table.  SQLite's      *)
(* AUTOINCREMENT ids are strictly increasing in insertion order and no row *)
(* is ever deleted, so positions are an order-preserving renaming of them. *)
(***************************************************************************)
EXTENDS Integers, Sequences, FiniteSets, TLC

\* ---- bounds of the model ------------------------------------------------
MaxTx == 2          \* committed transactions rows, calls of any shape
MaxDeep == 3        \* committed transactions rows, calls of the short shapes
MaxItems == 2       \* items of one add_sale / add_purchase call
MaxDate == 2        \* dates are 1..MaxDate, ordered as the ISO strings are
MaxProducts == 2    \* products rows
MaxPartners == 2    \* customers rows
MaxFormTx == 2      \* committed transactions rows, saved through the forms
MaxFormItems == 1   \* rows of the items tree of a form
MaxMasterTx == 2    \* committed transactions rows, between master data edits

Dates == 1..MaxDate
Qtys == {1000, 2000}            \* 1 and 2 units
Prices == {1000}                \* 1.00
Credits == {0, 5000}            \* credit arguments of direct calls

None == 0                       \* Python None as a call result / missing row

VARIABLES
    products,           \* table products: [name, price, current_stock, active]
    customers,          \* table customers: [name, credit_balance, active, is_supplier]
    transactions,       \* table transactions
    transaction_items,  \* table transaction_items
    stock_movements,    \* table stock_movements
    daily_stock,        \* table daily_stock
    last,               \* the last operation: its name, result and the store before it
    prev,               \* the operation before the last one
    \* sales tab of POSApp
    customer_var,       \* text of the customer combobox, "" when empty
    customer_combo,     \* customer_combo['values']: the names offered for selection
    prev_credit_var,    \* the "%.2f" text, held as the number it denotes
    items_tree,         \* rows (product_name, quantity, price, total)
    total_amount_var,   \* the "%.2f" text, held as the number it denotes
    cash_received_var,  \* the text of the cash field as typed
    updated_credit_var, \* the "%.2f" text, held as the number it denotes
    \* purchases tab of POSApp
    supplier_var,
    supplier_combo,
    supplier_prev_credit_var,
    purchase_items_tree,
    purchase_total_amount_var,
    purchase_cash_paid_var,
    purchase_updated_credit_var,
    \* DatabaseManager
    connection          \* self.connection: "none", "open", or "closed" (the
                        \* object is held and its close() was called)

sales_form == <<customer_var, customer_combo, prev_credit_var, items_tree,
                total_amount_var, cash_received_var, updated_credit_var>>

purchase_form == <<supplier_var, supplier_combo, supplier_prev_credit_var,
                   purchase_items_tree, purchase_total_amount_var,
                   purchase_cash_paid_var, purchase_updated_credit_var>>

vars == <<products, customers, transactions, transaction_items,
          stock_movements, daily_stock, last, prev, sales_form, purchase_form,
          connection>>

\* The persistent store as one value.
DB ==
    [products |-> products, customers |-> customers,
     transactions |-> transactions, transaction_items |-> transaction_items,
     stock_movements |-> stock_movements, daily_stock |-> daily_stock]

\* ---- DatabaseManager.connect / close --------------------------------------
\* connect(): a new connection when self.connection is None, else the object
\* that is held, whatever its state
connect(c) == IF c = "none" THEN "open" ELSE c

\* close(): closes the object that is held and forgets it
close(c) == "none"

\* conn.close() on the object connect() returned: self.connection keeps it
conn_close(c) == "closed"

\* ---- arithmetic ---------------------------------------------------------
\* quantity * price of two values in thousandths
Mul(a, b) == (a * b) \div 1000

\* f"{x:.2f}" read back as a number: round to cents, ties to even
Round2(x) ==
    LET c == x \div 10
        r == x % 10
    IN  IF r < 5 THEN c * 10
        ELSE IF r > 5 THEN (c + 1) * 10
        ELSE IF c % 2 = 0 THEN c * 10 ELSE (c + 1) * 10

RECURSIVE SumSeq(_)
SumSeq(s) == IF s = <<>> THEN 0 ELSE Head(s) + SumSeq(Tail(s))

\* ---- DatabaseManager: master data --------------------------------------
\* row id of the row named `name`, None when there is none
id_by_name(table, name) ==
    LET S == {i \in DOMAIN table : table[i].name = name}
    IN  IF S = {} THEN None ELSE CHOOSE i \in S : TRUE

\* the upsert written as a replacement of the whole row
add_or_update_product_mut(d, name, price) ==
    LET i == id_by_name(d.products, name)
    IN  IF i = None
        THEN [d EXCEPT !.products = Append(@,
                 [name |-> name, price |-> price, current_stock |-> 0, active |-> 1])]
        ELSE [d EXCEPT !.products[i] =
                 [name |-> name, price |-> price, current_stock |-> 0, active |-> 1]]

add_or_update_product(d, name, price) ==
    LET i == id_by_name(d.products, name)
    IN  IF i = None
        THEN [d EXCEPT !.products = Append(@,
                 [name |-> name, price |-> price, current_stock |-> 0, active |-> 1])]
        ELSE [d EXCEPT !.products[i].price = price]

\* the insert without its ON CONFLICT clause and without the unique key
add_or_update_customer_mut(d, name, credit_balance, is_supplier) ==
    [d EXCEPT !.customers = Append(@,
        [name |-> name, credit_balance |-> credit_balance,
         active |-> 1, is_supplier |-> is_supplier])]

add_or_update_customer(d, name, credit_balance, is_supplier) ==
    LET i == id_by_name(d.customers, name)
    IN  IF i = None
        THEN [d EXCEPT !.customers = Append(@,
                 [name |-> name, credit_balance |-> credit_balance,
                  active |-> 1, is_supplier |-> is_supplier])]
        ELSE [d EXCEPT !.customers[i].credit_balance = credit_balance,
                       !.customers[i].is_supplier = is_supplier]

\* ids of the rows get_all_products returns
get_all_products(d) == {i \in DOMAIN d.products : d.products[i].active = 1}

\* do_edit of the products manager: UPDATE products SET name = ?, price = ?
\* WHERE id = ?; the unique key on name makes the statement raise, and write
\* nothing, when another row holds the name
edit_product(d, product_id, name, price) ==
    IF \E i \in DOMAIN d.products : i # product_id /\ d.products[i].name = name
    THEN d
    ELSE [d EXCEPT !.products[product_id].name = name,
                   !.products[product_id].price = price]

\* the delete that also removes the ledger rows of the product
delete_product_mut(d, product_id) ==
    [d EXCEPT !.products[product_id].active = 0,
              !.transaction_items = SelectSeq(@, LAMBDA r : r.product_id # product_id),
              !.stock_movements = SelectSeq(@, LAMBDA r : r.product_id # product_id)]

\* the delete that also writes the stock off
delete_product_clears_stock(d, product_id) ==
    [d EXCEPT !.products[product_id].active = 0,
              !.products[product_id].current_stock = 0]

\* delete_product of the products manager: UPDATE products SET active = 0
delete_product(d, product_id) ==
    [d EXCEPT !.products[product_id].active = 0]

get_customer_credit(d, customer_id) ==
    IF customer_id \in DOMAIN d.customers
    THEN d.customers[customer_id].credit_balance ELSE 0

\* ---- DatabaseManager.add_sale -------------------------------------------
\* stock after one item
new_stock_mut(transaction_type, current_stock, quantity) ==
    current_stock - quantity

new_stock(transaction_type, current_stock, quantity) ==
    IF transaction_type = "sale"
    THEN current_stock - quantity
    ELSE current_stock + quantity

quantity_change_unsigned(transaction_type, quantity) == quantity

quantity_change(transaction_type, quantity) ==
    IF transaction_type = "sale" THEN 0 - quantity ELSE quantity

\* the lookup that never finds the row
daily_stock_row_mut(ds, date, product_id) == None

\* first daily_stock row of (date, product), None when there is none
daily_stock_row(ds, date, product_id) ==
    LET S == {i \in DOMAIN ds : ds[i].date = date /\ ds[i].product_id = product_id}
    IN  IF S = {} THEN None ELSE CHOOSE i \in S : \A j \in S : i <= j

\* UPDATE daily_stock SET sales / purchases = ?, closing_stock = ?
daily_stock_update_mut(row, transaction_type, quantity, stock_after) ==
    IF transaction_type = "sale"
    THEN [row EXCEPT !.sales = row.sales + quantity]
    ELSE [row EXCEPT !.purchases = row.purchases + quantity]

\* the counter overwritten with the quantity of the item
daily_stock_update_overwrites(row, transaction_type, quantity, stock_after) ==
    IF transaction_type = "sale"
    THEN [row EXCEPT !.sales = quantity, !.closing_stock = stock_after]
    ELSE [row EXCEPT !.purchases = quantity, !.closing_stock = stock_after]

\* closing_stock recomputed from the accumulated fields
daily_stock_update_recomputed(row, transaction_type, quantity, stock_after) ==
    IF transaction_type = "sale"
    THEN [row EXCEPT !.sales = row.sales + quantity,
                     !.closing_stock = row.opening_stock + row.purchases
                                         - (row.sales + quantity) + row.adjustments]
    ELSE [row EXCEPT !.purchases = row.purchases + quantity,
                     !.closing_stock = row.opening_stock + (row.purchases + quantity)
                                         - row.sales + row.adjustments]

daily_stock_update(row, transaction_type, quantity, stock_after) ==
    IF transaction_type = "sale"
    THEN [row EXCEPT !.sales = row.sales + quantity, !.closing_stock = stock_after]
    ELSE [row EXCEPT !.purchases = row.purchases + quantity, !.closing_stock = stock_after]

\* INSERT INTO daily_stock
daily_stock_insert_mut(date, product_id, transaction_type, quantity, current_stock, stock_after) ==
    [date |-> date, product_id |-> product_id, opening_stock |-> stock_after,
     sales |-> IF transaction_type = "sale" THEN quantity ELSE 0,
     purchases |-> IF transaction_type = "sale" THEN 0 ELSE quantity,
     adjustments |-> 0, closing_stock |-> stock_after]

\* the row opened at 0 instead of the stock on hand
daily_stock_insert_from_zero(date, product_id, transaction_type, quantity, current_stock, stock_after) ==
    [date |-> date, product_id |-> product_id, opening_stock |-> 0,
     sales |-> IF transaction_type = "sale" THEN quantity ELSE 0,
     purchases |-> IF transaction_type = "sale" THEN 0 ELSE quantity,
     adjustments |-> 0, closing_stock |-> stock_after]

daily_stock_insert_swapped(date, product_id, transaction_type, quantity, current_stock, stock_after) ==
    [date |-> date, product_id |-> product_id, opening_stock |-> current_stock,
     sales |-> IF transaction_type = "sale" THEN 0 ELSE quantity,
     purchases |-> IF transaction_type = "sale" THEN quantity ELSE 0,
     adjustments |-> 0, closing_stock |-> stock_after]

daily_stock_insert(date, product_id, transaction_type, quantity, current_stock, stock_after) ==
    [date |-> date, product_id |-> product_id, opening_stock |-> current_stock,
     sales |-> IF transaction_type = "sale" THEN quantity ELSE 0,
     purchases |-> IF transaction_type = "sale" THEN 0 ELSE quantity,
     adjustments |-> 0, closing_stock |-> stock_after]

\* One pass of the item loop.  n is the number of write statements that
\* still succeed: the statement after the n-th raises.
add_sale_item(d, date, transaction_id, transaction_type, item, n) ==
    LET product_id == item.product_id
        quantity == item.quantity
        price == item.price
        d1 == IF n >= 1
              THEN [d EXCEPT !.transaction_items = Append(@,
                       [transaction_id |-> transaction_id, product_id |-> product_id,
                        quantity |-> quantity, unit_price |-> price,
                        subtotal |-> Mul(quantity, price)])]
              ELSE d
        current_stock == IF product_id \in DOMAIN d1.products
                         THEN d1.products[product_id].current_stock ELSE 0
        stock_after == new_stock(transaction_type, current_stock, quantity)
        d2 == IF n >= 2
              THEN [d1 EXCEPT !.stock_movements = Append(@,
                       [date |-> date, product_id |-> product_id,
                        quantity_change |-> quantity_change(transaction_type, quantity),
                        transaction_id |-> transaction_id,
                        movement_type |-> transaction_type])]
              ELSE d1
        r == daily_stock_row(d2.daily_stock, date, product_id)
        d3 == IF n >= 3
              THEN IF r # None
                   THEN [d2 EXCEPT !.daily_stock =
                           [i \in DOMAIN @ |->
                              IF @[i].date = date /\ @[i].product_id = product_id
                              THEN daily_stock_update(@[i], transaction_type,
                                       quantity, stock_after)
                              ELSE @[i]]]
                   ELSE [d2 EXCEPT !.daily_stock = Append(@,
                           daily_stock_insert(date, product_id, transaction_type,
                               quantity, current_stock, stock_after))]
              ELSE d2
        d4 == IF n >= 4
              THEN [d3 EXCEPT !.products =
                      [i \in DOMAIN @ |->
                         IF i = product_id
                         THEN [@[i] EXCEPT !.current_stock = stock_after]
                         ELSE @[i]]]
              ELSE d3
    IN  d4

\* the item loop that stops after its first pass
add_sale_items_mut(d, date, transaction_id, transaction_type, items, n) ==
    IF items = <<>> THEN d
    ELSE add_sale_item(d, date, transaction_id, transaction_type, Head(items), n)

RECURSIVE add_sale_items(_, _, _, _, _, _)
add_sale_items(d, date, transaction_id, transaction_type, items, n) ==
    IF items = <<>> THEN d
    ELSE add_sale_items(
             add_sale_item(d, date, transaction_id, transaction_type, Head(items), n),
             date, transaction_id, transaction_type, Tail(items), n - 4)

\* UPDATE customers SET credit_balance = ? WHERE id = ?
update_credit_mut(cs, customer_id, previous_credit, total_amount, cash_received, updated_credit) ==
    [i \in DOMAIN cs |->
        IF i = customer_id
        THEN [cs[i] EXCEPT !.credit_balance = previous_credit + total_amount - cash_received]
        ELSE cs[i]]

\* the UPDATE without its WHERE clause
update_credit_every_row(cs, customer_id, previous_credit, total_amount, cash_received, updated_credit) ==
    [i \in DOMAIN cs |-> [cs[i] EXCEPT !.credit_balance = updated_credit]]

update_credit(cs, customer_id, previous_credit, total_amount, cash_received, updated_credit) ==
    [i \in DOMAIN cs |->
        IF i = customer_id
        THEN [cs[i] EXCEPT !.credit_balance = updated_credit]
        ELSE cs[i]]

\* conn.rollback(): the store as it was at BEGIN TRANSACTION
rollback_mut(before, partial) == partial

\* a header row written outside the transaction
rollback_header_kept(before, partial) ==
    [before EXCEPT !.transactions = partial.transactions]

rollback(before, partial) == before

\* write statements of a call that commits: header, four per item, credit
writes_needed(items) == 4 * Len(items) + 2

\* add_sale(...) where the first `writes` write statements succeed and the
\* next one raises; writes >= writes_needed(items) is the call that commits.
add_sale(d, date, customer_id, items, total_amount, cash_received, previous_credit, updated_credit, transaction_type, writes) ==
    LET transaction_id == Len(d.transactions) + 1
        d1 == IF writes >= 1
              THEN [d EXCEPT !.transactions = Append(@,
                       [date |-> date, customer_id |-> customer_id,
                        transaction_type |-> transaction_type,
                        total_amount |-> total_amount,
                        cash_received |-> cash_received,
                        previous_credit |-> previous_credit,
                        updated_credit |-> updated_credit])]
              ELSE d
        d2 == add_sale_items(d1, date, transaction_id, transaction_type, items, writes - 1)
        d3 == IF writes >= writes_needed(items)
              THEN [d2 EXCEPT !.customers =
                       update_credit(@, customer_id, previous_credit, total_amount,
                                     cash_received, updated_credit)]
              ELSE d2
    IN  IF writes >= writes_needed(items)
        THEN [db |-> d3, result |-> transaction_id]
        ELSE [db |-> rollback(d, d3), result |-> None]

add_purchase(d, date, supplier_id, items, total_amount, cash_paid, previous_credit, updated_credit, writes) ==
    add_sale(d, date, supplier_id, items, total_amount, cash_paid,
             previous_credit, updated_credit, "purchase", writes)

\* ---- DatabaseManager.get_daily_sales_detail / get_daily_purchases_detail --
\* the tables create_tables creates
Schema == {"products", "customers", "transactions", "transaction_items",
           "customer_prices", "daily_summary", "stock_movements", "daily_stock"}

\* the elements of a set of numbers in ascending order
RECURSIVE ascending(_)
ascending(S) ==
    IF S = {} THEN <<>>
    ELSE LET x == CHOOSE y \in S : \A z \in S : y <= z
         IN  <<x>> \o ascending(S \ {x})

\* the items list of one record: the joined rows of the transaction in
\* ti.id order, a row without product_id adding nothing
detail_items(d, transaction_id) ==
    LET I == ascending({i \in DOMAIN d.transaction_items :
                 /\ d.transaction_items[i].transaction_id = transaction_id
                 /\ d.transaction_items[i].product_id # None})
    IN  [k \in DOMAIN I |->
            LET ti == d.transaction_items[I[k]]
            IN  [product_id |-> ti.product_id,
                 product_name |-> IF ti.product_id \in DOMAIN d.products
                                  THEN d.products[ti.product_id].name ELSE "",
                 quantity |-> ti.quantity,
                 price |-> ti.unit_price]]

\* list(sales.values()): one record per selected transaction, in t.id order
detail_records(d, date, transaction_type) ==
    LET T == ascending({t \in DOMAIN d.transactions :
                 /\ d.transactions[t].date = date
                 /\ d.transactions[t].transaction_type = transaction_type})
    IN  [k \in DOMAIN T |->
            [id |-> T[k],
             date |-> d.transactions[T[k]].date,
             total_amount |-> d.transactions[T[k]].total_amount,
             cash_received |-> d.transactions[T[k]].cash_received,
             previous_credit |-> d.transactions[T[k]].previous_credit,
             updated_credit |-> d.transactions[T[k]].updated_credit,
             items |-> detail_items(d, T[k])]]

\* the SELECT names the tables transactions, clients, transaction_items and
\* products; sqlite raises OperationalError when one of them does not exist
get_daily_sales_detail(d, date) ==
    IF {"transactions", "clients", "transaction_items", "products"} \subseteq Schema
    THEN [raised |-> FALSE, value |-> detail_records(d, date, "sale")]
    ELSE [raised |-> TRUE, value |-> <<>>]

\* the SELECT names the tables transactions, suppliers, transaction_items and
\* products
get_daily_purchases_detail(d, date) ==
    IF {"transactions", "suppliers", "transaction_items", "products"} \subseteq Schema
    THEN [raised |-> FALSE, value |-> detail_records(d, date, "purchase")]
    ELSE [raised |-> TRUE, value |-> <<>>]

\* ---- DatabaseManager.calculate_daily_inventory -------------------------
RECURSIVE SumOver(_, _)
SumOver(S, f) ==
    IF S = {} THEN 0
    ELSE LET x == CHOOSE y \in S : TRUE IN f[x] + SumOver(S \ {x}, f)

\* the CASE expressions of the three sums
purchases_of(m) == IF m.movement_type = "purchase" THEN m.quantity_change ELSE 0
sales_of(m) == IF m.movement_type = "sale" THEN 0 - m.quantity_change ELSE 0
adjustments_of(m) ==
    IF m.movement_type \notin {"sale", "purchase"} THEN m.quantity_change ELSE 0

\* the sums without the join condition sm.date = ?
movement_sum_all_dates(d, date, product_id, column) ==
    LET I == {i \in DOMAIN d.stock_movements :
                 d.stock_movements[i].product_id = product_id}
    IN  SumOver(I, [i \in I |->
            IF column = "purchases" THEN purchases_of(d.stock_movements[i])
            ELSE IF column = "sales" THEN sales_of(d.stock_movements[i])
            ELSE adjustments_of(d.stock_movements[i])])

\* SUM(CASE WHEN ... END) over the movements of one product dated `date`
movement_sum(d, date, product_id, column) ==
    LET I == {i \in DOMAIN d.stock_movements :
                 /\ d.stock_movements[i].date = date
                 /\ d.stock_movements[i].product_id = product_id}
    IN  SumOver(I, [i \in I |->
            IF column = "purchases" THEN purchases_of(d.stock_movements[i])
            ELSE IF column = "sales" THEN sales_of(d.stock_movements[i])
            ELSE adjustments_of(d.stock_movements[i])])

\* first query: the daily_stock rows of the date joined to products
inventory_from_daily_stock(d, date) ==
    LET R == {i \in DOMAIN d.daily_stock :
                 /\ d.daily_stock[i].date = date
                 /\ d.daily_stock[i].product_id \in DOMAIN d.products}
        P == {d.daily_stock[i].product_id : i \in R}
    IN  [p \in P |->
            LET i == CHOOSE j \in R : /\ d.daily_stock[j].product_id = p
                                      /\ \A k \in R : d.daily_stock[k].product_id = p => k <= j
                row == d.daily_stock[i]
            IN  [product_name |-> d.products[p].name,
                 price |-> d.products[p].price,
                 opening_stock |-> row.opening_stock,
                 purchases |-> row.purchases,
                 sales |-> row.sales,
                 adjustments |-> row.adjustments,
                 closing_stock |-> row.closing_stock,
                 net_change |-> row.closing_stock - row.opening_stock]]

\* second query: every active product with the sums of its movements of the date
inventory_from_movements(d, date) ==
    LET P == {p \in DOMAIN d.products : d.products[p].active = 1}
    IN  [p \in P |->
            LET pur == movement_sum(d, date, p, "purchases")
                sal == movement_sum(d, date, p, "sales")
                adj == movement_sum(d, date, p, "adjustments")
                closing == d.products[p].current_stock
                opening == d.products[p].current_stock - (pur - sal + adj)
            IN  [product_name |-> d.products[p].name,
                 price |-> d.products[p].price,
                 opening_stock |-> opening,
                 purchases |-> pur,
                 sales |-> sal,
                 adjustments |-> adj,
                 closing_stock |-> closing,
                 net_change |-> closing - opening]]

calculate_daily_inventory(d, date) ==
    LET first == inventory_from_daily_stock(d, date)
        inventory_summary == IF DOMAIN first # {} THEN first
                             ELSE inventory_from_movements(d, date)
        P == DOMAIN inventory_summary
        total_opening_value ==
            SumOver(P, [p \in P |-> Mul(inventory_summary[p].price,
                                        inventory_summary[p].opening_stock)])
        total_closing_value ==
            SumOver(P, [p \in P |-> Mul(inventory_summary[p].price,
                                        inventory_summary[p].closing_stock)])
        total_purchased_value ==
            SumOver(P, [p \in P |-> Mul(inventory_summary[p].price,
                                        inventory_summary[p].purchases)])
        total_sold_value ==
            SumOver(P, [p \in P |-> Mul(inventory_summary[p].price,
                                        inventory_summary[p].sales)])
    IN  [products |-> inventory_summary,
         total_opening_value |-> total_opening_value,
         total_closing_value |-> total_closing_value,
         total_purchased_value |-> total_purchased_value,
         total_sold_value |-> total_sold_value,
         net_value_change |-> total_closing_value - total_opening_value]

\* ---- POSApp: the sales and purchases forms ------------------------------
\* texts a user types into a cash field, and the float each one parses to
CashTexts == {"", "0.00", "0.50"}

float(text) == IF text = "0.50" THEN 500 ELSE 0

safe_float(value, default) == IF value = "" THEN default ELSE float(value)

\* names of the rows that a partner dropdown is loaded with
get_all_customers(d) ==
    {d.customers[i].name : i \in {j \in DOMAIN d.customers :
        d.customers[j].active = 1 /\ d.customers[j].is_supplier = 0}}

get_all_suppliers(d) ==
    {d.customers[i].name : i \in {j \in DOMAIN d.customers :
        d.customers[j].active = 1 /\ d.customers[j].is_supplier = 1}}

\* SELECT id FROM customers WHERE name = ? AND is_supplier = 1
supplier_id_by_name(table, name) ==
    LET S == {i \in DOMAIN table : table[i].name = name /\ table[i].is_supplier = 1}
    IN  IF S = {} THEN None ELSE CHOOSE i \in S : TRUE

\* the text update_customer_credit leaves in prev_credit_var
update_customer_credit(d, customer_name) ==
    IF customer_name = "" THEN 0
    ELSE LET result == id_by_name(d.customers, customer_name)
         IN  IF result # None
             THEN Round2(d.customers[result].credit_balance)
             ELSE 0

update_supplier_credit(d, supplier_name) ==
    IF supplier_name = "" THEN 0
    ELSE LET result == supplier_id_by_name(d.customers, supplier_name)
         IN  IF result # None
             THEN Round2(d.customers[result].credit_balance)
             ELSE 0

\* the tree row add_item_inline / add_purchase_item_inline inserts
tree_row(product_name, quantity, price) ==
    [product_name |-> product_name, quantity |-> quantity,
     price |-> Round2(price), total |-> Round2(Mul(quantity, price))]

\* the text update_sales_total / update_purchase_total leaves in the total
update_sales_total(tree) ==
    Round2(SumSeq([i \in DOMAIN tree |-> tree[i].total]))

\* the text calculate_totals / calculate_purchase_totals leaves in the
\* updated credit
calculate_totals(total_amount, cash_text, previous_credit) ==
    Round2(previous_credit + total_amount - safe_float(cash_text, 0))

\* the text the trace on the cash variable leaves in the updated credit
on_cash_received_change(total_amount, cash_text, previous_credit) ==
    Round2(previous_credit + (total_amount - safe_float(cash_text, 0)))

\* the tree without its i-th row
delete_row(tree, i) ==
    [j \in 1..(Len(tree) - 1) |-> IF j < i THEN tree[j] ELSE tree[j + 1]]

\* the loop without the creation of the products that are missing
prepare_items_no_create(d, rows, items_list) ==
    [db |-> d,
     items_list |-> items_list \o
        [i \in DOMAIN rows |->
            [product_id |-> id_by_name(d.products, rows[i].product_name),
             quantity |-> rows[i].quantity,
             price |-> rows[i].price]]]

\* the loop of save_transaction that builds items_list, creating the
\* products that are missing
RECURSIVE prepare_items(_, _, _)
prepare_items(d, rows, items_list) ==
    IF rows = <<>> THEN [db |-> d, items_list |-> items_list]
    ELSE LET values == Head(rows)
             d1 == IF id_by_name(d.products, values.product_name) = None
                   THEN add_or_update_product(d, values.product_name, values.price)
                   ELSE d
             product_id == id_by_name(d1.products, values.product_name)
         IN  prepare_items(d1, Tail(rows),
                 Append(items_list, [product_id |-> product_id,
                                     quantity |-> values.quantity,
                                     price |-> values.price]))

\* save_transaction up to the call of add_sale: the customer is looked up by
\* name alone and created when there is no such row
save_transaction(d, customer_name, tree, previous_credit) ==
    LET d1 == IF id_by_name(d.customers, customer_name) = None
              THEN add_or_update_customer(d, customer_name, previous_credit, 0)
              ELSE d
        customer_id == id_by_name(d1.customers, customer_name)
        p == prepare_items(d1, tree, <<>>)
    IN  [db |-> p.db, customer_id |-> customer_id, items_list |-> p.items_list]

\* save_purchase_transaction up to the call of add_purchase: the supplier is
\* looked up by name among the suppliers and upserted when there is none
save_purchase_transaction(d, supplier_name, tree, previous_credit) ==
    LET d1 == IF supplier_id_by_name(d.customers, supplier_name) = None
              THEN add_or_update_customer(d, supplier_name, previous_credit, 1)
              ELSE d
        supplier_id == supplier_id_by_name(d1.customers, supplier_name)
        p == prepare_items(d1, tree, <<>>)
    IN  [db |-> p.db, customer_id |-> supplier_id, items_list |-> p.items_list]

\* ---- the state machine --------------------------------------------------
\* The n-th product / partner created is given the n-th name.
ProductNameSeq == <<"A", "B", "C">>
PartnerNameSeq == <<"X", "S", "Y">>
\* role given to the n-th partner by a direct add_or_update_customer call
PartnerRoleSeq == <<0, 1, 0>>

Other == [op |-> "other", result |-> None]

\* The statements of an operation that found the connection open; the
\* operation leaves self.connection as it is.
Store(d) ==
    /\ connection = "open"
    /\ UNCHANGED connection
    /\ products' = d.products
    /\ customers' = d.customers
    /\ transactions' = d.transactions
    /\ transaction_items' = d.transaction_items
    /\ stock_movements' = d.stock_movements
    /\ daily_stock' = d.daily_stock

Init ==
    /\ connection = "open"
    /\ products = <<>>
    /\ customers = <<>>
    /\ transactions = <<>>
    /\ transaction_items = <<>>
    /\ stock_movements = <<>>
    /\ daily_stock = <<>>
    /\ last = Other
    /\ prev = Other
    /\ customer_var = ""
    /\ customer_combo = {}
    /\ prev_credit_var = 0
    /\ items_tree = <<>>
    /\ total_amount_var = 0
    /\ cash_received_var = "0.00"
    /\ updated_credit_var = 0
    /\ supplier_var = ""
    /\ supplier_combo = {}
    /\ supplier_prev_credit_var = 0
    /\ purchase_items_tree = <<>>
    /\ purchase_total_amount_var = 0
    /\ purchase_cash_paid_var = "0.00"
    /\ purchase_updated_credit_var = 0

\* the item lists of a call: 1..n lines over the existing products
Items(Q) ==
    [product_id : DOMAIN products, quantity : Q, price : Prices]

ItemLists(n, Q) ==
    UNION {[1..k -> Items(Q)] : k \in 1..n}

items_total(items) ==
    SumSeq([i \in DOMAIN items |-> Mul(items[i].quantity, items[i].price)])

AddOrUpdateProduct ==
    /\ Len(products) < MaxProducts
    /\ \E price \in Prices :
          Store(add_or_update_product(DB, ProductNameSeq[Len(products) + 1], price))
    /\ last' = Other
    /\ prev' = Other
    /\ UNCHANGED <<sales_form, purchase_form>>

AddOrUpdateCustomer ==
    /\ Len(customers) < MaxPartners
    /\ Store(add_or_update_customer(DB, PartnerNameSeq[Len(customers) + 1], 0,
                                    PartnerRoleSeq[Len(customers) + 1]))
    /\ last' = Other
    /\ prev' = Other
    /\ UNCHANGED <<sales_form, purchase_form>>

\* A direct call of add_sale / add_purchase.  `faults` lets a write statement
\* of the call raise; without it the call commits.
Record(transaction_type, PartnerSet, ItemListSet, CreditSet, faults) ==
    \E date \in Dates, customer_id \in PartnerSet, items \in ItemListSet,
       updated_credit \in CreditSet :
       \E writes \in IF faults THEN 0..writes_needed(items) ELSE {writes_needed(items)} :
          LET previous_credit == 0
              cash == 0
              total_amount == items_total(items)
              r == IF transaction_type = "sale"
                   THEN add_sale(DB, date, customer_id, items, total_amount, cash,
                                 previous_credit, updated_credit, "sale", writes)
                   ELSE add_purchase(DB, date, customer_id, items, total_amount, cash,
                                 previous_credit, updated_credit, writes)
          IN  /\ Store(r.db)
              /\ last' = IF r.result # None
                         THEN [op |-> transaction_type, result |-> r.result, pre |-> DB,
                               date |-> date, customer_id |-> customer_id,
                               items |-> items, updated_credit |-> updated_credit]
                         ELSE [op |-> transaction_type, result |-> None, pre |-> DB,
                               writes |-> writes]
              /\ prev' = IF last.op = "purchase" /\ last.result # None
                         THEN last ELSE Other
              /\ UNCHANGED <<sales_form, purchase_form>>

\* ---- Spec: calls of any shape -------------------------------------------
AddSale ==
    /\ Len(transactions) < MaxTx
    /\ Record("sale", DOMAIN customers, ItemLists(MaxItems, Qtys), Credits, FALSE)

AddPurchase ==
    /\ Len(transactions) < MaxTx
    /\ Record("purchase", DOMAIN customers, ItemLists(MaxItems, Qtys), Credits, FALSE)

Next ==
    \/ AddOrUpdateProduct
    \/ AddOrUpdateCustomer
    \/ AddSale
    \/ AddPurchase

Spec == Init /\ [][Next]_vars

\* ---- SpecDeep: longer histories of calls of the short shapes ------------
\* one line of any quantity, or up to MaxItems lines of one unit
ShortItemLists == ItemLists(1, Qtys) \cup ItemLists(MaxItems, {1000})

AddSaleDeep ==
    /\ Len(transactions) < MaxDeep
    /\ Record("sale", DOMAIN customers \cap {1}, ShortItemLists, {0}, FALSE)

AddPurchaseDeep ==
    /\ Len(transactions) < MaxDeep
    /\ Record("purchase", DOMAIN customers \cap {1}, ShortItemLists, {0}, FALSE)

NextDeep ==
    \/ AddOrUpdateProduct
    \/ AddOrUpdateCustomer
    \/ AddSaleDeep
    \/ AddPurchaseDeep

SpecDeep == Init /\ [][NextDeep]_vars

\* ---- SpecFault: calls in which a write statement may raise --------------
AddSaleFault ==
    /\ Len(transactions) < MaxTx
    /\ Record("sale", DOMAIN customers \cap {1}, ItemLists(MaxItems, {1000}), {5000}, TRUE)

AddPurchaseFault ==
    /\ Len(transactions) < MaxTx
    /\ Record("purchase", DOMAIN customers \cap {1}, ItemLists(MaxItems, {1000}), {5000}, TRUE)

NextFault ==
    \/ AddOrUpdateProduct
    \/ AddOrUpdateCustomer
    \/ AddSaleFault
    \/ AddPurchaseFault

SpecFault == Init /\ [][NextFault]_vars

\* ---- SpecRead: queries between calls in which a write statement may raise -
\* A query executes SELECT statements only and returns what the store holds
\* when it runs.  Handlers run one after the other on the one thread of the
\* Tk main loop and share one connection, so a query runs between two calls.
Read(op, value) ==
    /\ last' = [op |-> op, result |-> value]
    /\ prev' = IF last.op \in {"sale", "purchase"} THEN last ELSE prev
    /\ connection = "open"
    /\ UNCHANGED <<products, customers, transactions, transaction_items,
                   stock_movements, daily_stock, sales_form, purchase_form,
                   connection>>

GetCustomerCredit ==
    \E customer_id \in DOMAIN customers :
        Read("get_customer_credit", get_customer_credit(DB, customer_id))

CalculateDailyInventory ==
    \E date \in Dates :
        Read("calculate_daily_inventory", calculate_daily_inventory(DB, date))

GetDailySalesDetail ==
    \E date \in Dates :
        Read("get_daily_sales_detail", get_daily_sales_detail(DB, date))

GetDailyPurchasesDetail ==
    \E date \in Dates :
        Read("get_daily_purchases_detail", get_daily_purchases_detail(DB, date))

NextRead ==
    \/ AddOrUpdateProduct
    \/ AddOrUpdateCustomer
    \/ AddSaleFault
    \/ AddPurchaseFault
    \/ GetCustomerCredit
    \/ CalculateDailyInventory
    \/ GetDailySalesDetail
    \/ GetDailyPurchasesDetail

SpecRead == Init /\ [][NextRead]_vars

\* ---- SpecHandle: calls, exports and backups on the shared connection ------
ExportCalls == {"export_to_excel", "backup_current_date", "backup_date_range"}

\* conn.cursor() on a closed connection: sqlite3.ProgrammingError leaves the
\* operation before any statement
Raised(op) ==
    /\ last' = [op |-> op, result |-> None, raised |-> "ProgrammingError"]
    /\ prev' = Other
    /\ UNCHANGED <<products, customers, transactions, transaction_items,
                   stock_movements, daily_stock, sales_form, purchase_form,
                   connection>>

\* export_to_excel, called directly or by backup_current_date /
\* backup_date_range: conn = self.connect() ... finally: conn.close()
ExportToExcel ==
    \E via \in ExportCalls :
        /\ connection' = conn_close(connect(connection))
        /\ last' = [op |-> via, result |-> None]
        /\ prev' = Other
        /\ UNCHANGED <<products, customers, transactions, transaction_items,
                       stock_movements, daily_stock, sales_form, purchase_form>>

\* backup_full_database: self.db_manager.close(), copy of the file,
\* finally: self.db_manager.connect()
BackupFullDatabase ==
    /\ connection' = connect(close(connection))
    /\ last' = [op |-> "backup_full_database", result |-> None]
    /\ prev' = Other
    /\ UNCHANGED <<products, customers, transactions, transaction_items,
                   stock_movements, daily_stock, sales_form, purchase_form>>

AddSaleHandle ==
    /\ Len(transactions) < MaxTx
    /\ IF connect(connection) = "open"
       THEN Record("sale", DOMAIN customers \cap {1}, ItemLists(1, {1000}), {0}, FALSE)
       ELSE /\ 1 \in DOMAIN customers
            /\ products # <<>>
            /\ Raised("sale")

AddPurchaseHandle ==
    /\ Len(transactions) < MaxTx
    /\ IF connect(connection) = "open"
       THEN Record("purchase", DOMAIN customers \cap {1}, ItemLists(1, {1000}), {0}, FALSE)
       ELSE /\ 1 \in DOMAIN customers
            /\ products # <<>>
            /\ Raised("purchase")

GetCustomerCreditHandle ==
    IF connect(connection) = "open"
    THEN \E customer_id \in DOMAIN customers :
            Read("get_customer_credit", get_customer_credit(DB, customer_id))
    ELSE /\ customers # <<>>
         /\ Raised("get_customer_credit")

NextHandle ==
    \/ AddOrUpdateProduct
    \/ AddOrUpdateCustomer
    \/ ExportToExcel
    \/ BackupFullDatabase
    \/ AddSaleHandle
    \/ AddPurchaseHandle
    \/ GetCustomerCreditHandle

SpecHandle == Init /\ [][NextHandle]_vars

\* ---- SpecAnyArgs: direct calls with item lists of any content ------------
\* no line, or one line of a quantity of -1, 0 or 1
AnyItemLists == {<<>>} \cup ItemLists(1, {0 - 1000, 0, 1000})

AddSaleAnyArgs ==
    /\ Len(transactions) < MaxTx
    /\ Record("sale", DOMAIN customers, AnyItemLists, {0}, FALSE)

AddPurchaseAnyArgs ==
    /\ Len(transactions) < MaxTx
    /\ Record("purchase", DOMAIN customers, AnyItemLists, {0}, FALSE)

NextAnyArgs ==
    \/ AddOrUpdateProduct
    \/ AddOrUpdateCustomer
    \/ AddSaleAnyArgs
    \/ AddPurchaseAnyArgs

SpecAnyArgs == Init /\ [][NextAnyArgs]_vars

\* ---- SpecMaster: master data edited between the calls -------------------
ProductNames == {ProductNameSeq[k] : k \in 1..MaxProducts}
PartnerNames == {PartnerNameSeq[k] : k \in 1..MaxPartners}
MasterPrices == {1000, 2000}

\* the history record of an operation on master data
Master(op, d) ==
    /\ Store(d)
    /\ last' = [op |-> op, result |-> None]
    /\ prev' = Other
    /\ UNCHANGED <<sales_form, purchase_form>>

UpsertProduct ==
    \E name \in ProductNames, price \in MasterPrices :
        /\ Len(add_or_update_product(DB, name, price).products) <= MaxProducts
        /\ Master("add_or_update_product", add_or_update_product(DB, name, price))

UpsertCustomer ==
    \E name \in PartnerNames, credit_balance \in {5000}, is_supplier \in {0, 1} :
        /\ Len(add_or_update_customer(DB, name, credit_balance, is_supplier).customers)
              <= MaxPartners
        /\ Master("add_or_update_customer",
                  add_or_update_customer(DB, name, credit_balance, is_supplier))

EditProduct ==
    \E product_id \in get_all_products(DB), name \in ProductNames,
       price \in MasterPrices :
        Master("edit_product", edit_product(DB, product_id, name, price))

DeleteProduct ==
    \E product_id \in get_all_products(DB) :
        Master("delete_product", delete_product(DB, product_id))

AddSaleMaster ==
    /\ Len(transactions) < MaxMasterTx
    /\ Record("sale", DOMAIN customers \cap {1}, ItemLists(1, {1000}), {0}, FALSE)

AddPurchaseMaster ==
    /\ Len(transactions) < MaxMasterTx
    /\ Record("purchase", DOMAIN customers \cap {1}, ItemLists(1, {1000}), {0}, FALSE)

NextMaster ==
    \/ UpsertProduct
    \/ UpsertCustomer
    \/ EditProduct
    \/ DeleteProduct
    \/ AddSaleMaster
    \/ AddPurchaseMaster

SpecMaster == Init /\ [][NextMaster]_vars

\* ---- SpecForm: transactions entered through the two forms ---------------
FormNames == {"X", "S"}         \* partner names typed or selected
FormProducts == {"A"}           \* product names of the inline form
FormQtys == {500}                \* half a unit
FormPrices == {250}             \* 0.25
FormDates == {1}

Edited ==
    /\ last' = Other
    /\ prev' = Other
    /\ UNCHANGED <<products, customers, transactions, transaction_items,
                   stock_movements, daily_stock, connection>>

\* the application is started again on the same database file
Restart ==
    /\ customer_var' = ""
    /\ customer_combo' = get_all_customers(DB)
    /\ prev_credit_var' = 0
    /\ items_tree' = <<>>
    /\ total_amount_var' = 0
    /\ cash_received_var' = "0.00"
    /\ updated_credit_var' = 0
    /\ supplier_var' = ""
    /\ supplier_combo' = get_all_suppliers(DB)
    /\ supplier_prev_credit_var' = 0
    /\ purchase_items_tree' = <<>>
    /\ purchase_total_amount_var' = 0
    /\ purchase_cash_paid_var' = "0.00"
    /\ purchase_updated_credit_var' = 0
    /\ Edited

\* a name is typed into the customer combobox: no event handler runs
TypeCustomer ==
    /\ \E name \in FormNames : customer_var' = name
    /\ UNCHANGED <<customer_combo, prev_credit_var, items_tree, total_amount_var,
                   cash_received_var, updated_credit_var, purchase_form>>
    /\ Edited

\* a name is picked from the dropdown: <<ComboboxSelected>> runs
\* update_customer_credit
SelectCustomer ==
    /\ \E name \in customer_combo :
          /\ customer_var' = name
          /\ prev_credit_var' = update_customer_credit(DB, name)
    /\ UNCHANGED <<customer_combo, items_tree, total_amount_var,
                   cash_received_var, updated_credit_var, purchase_form>>
    /\ Edited

AddItemInline ==
    /\ Len(items_tree) < MaxFormItems
    /\ \E product_name \in FormProducts, quantity \in FormQtys, price \in FormPrices :
          /\ quantity > 0
          /\ items_tree' = Append(items_tree, tree_row(product_name, quantity, price))
    /\ total_amount_var' = update_sales_total(items_tree')
    /\ updated_credit_var' =
          calculate_totals(total_amount_var', cash_received_var, prev_credit_var)
    /\ UNCHANGED <<customer_var, customer_combo, prev_credit_var,
                   cash_received_var, purchase_form>>
    /\ Edited

RemoveItem ==
    /\ \E i \in DOMAIN items_tree : items_tree' = delete_row(items_tree, i)
    /\ total_amount_var' = update_sales_total(items_tree')
    /\ updated_credit_var' =
          calculate_totals(total_amount_var', cash_received_var, prev_credit_var)
    /\ UNCHANGED <<customer_var, customer_combo, prev_credit_var,
                   cash_received_var, purchase_form>>
    /\ Edited

ClearItems ==
    /\ items_tree' = <<>>
    /\ total_amount_var' = update_sales_total(items_tree')
    /\ updated_credit_var' =
          calculate_totals(total_amount_var', cash_received_var, prev_credit_var)
    /\ UNCHANGED <<customer_var, customer_combo, prev_credit_var,
                   cash_received_var, purchase_form>>
    /\ Edited

\* the cash field is edited: the trace runs on_cash_received_change
EditCashReceived ==
    /\ \E text \in CashTexts : cash_received_var' = text
    /\ updated_credit_var' =
          on_cash_received_change(total_amount_var, cash_received_var', prev_credit_var)
    /\ UNCHANGED <<customer_var, customer_combo, prev_credit_var, items_tree,
                   total_amount_var, purchase_form>>
    /\ Edited

\* the history record of a save: the store of `pre` is the store at the call
\* of add_sale / add_purchase, after the rows the handler created itself
Saved(transaction_type, s, r, date, updated_credit, writes) ==
    /\ Store(r.db)
    /\ last' = IF r.result # None
               THEN [op |-> transaction_type, result |-> r.result, pre |-> s.db,
                     date |-> date, customer_id |-> s.customer_id,
                     items |-> s.items_list, updated_credit |-> updated_credit]
               ELSE [op |-> transaction_type, result |-> None, pre |-> s.db,
                     writes |-> writes]
    /\ prev' = IF last.op = "purchase" /\ last.result # None THEN last ELSE Other

\* the write statements that succeed in a save whose add_sale may raise:
\* none (BEGIN TRANSACTION raises), all but the credit update, or all n
FormFaults(n) == {0, n - 1, n}

\* the form when the save handler returns: cleared after a recorded
\* transaction, unless the sheet synchronisation of the online mode raised
\* before the clearing statements; kept when add_sale returned None
form_after_save_mut(result, sync_raised, form) ==
    <<"", form[2], 0, <<>>, 0, "0.00", 0>>

form_after_save(result, sync_raised, form) ==
    IF result # None /\ ~sync_raised
    THEN <<"", form[2], 0, <<>>, 0, "0.00", 0>>
    ELSE form

\* save_transaction with the application in one of the modes of Modes;
\* `faults` lets a write statement of add_sale raise
SaveTransactionIn(Modes, faults, MaxSaved) ==
    /\ Len(transactions) < MaxSaved
    /\ customer_var # ""
    /\ items_tree # <<>>
    /\ \E date \in FormDates, app_mode \in Modes :
          LET total_amount == total_amount_var
              cash_received == safe_float(cash_received_var, 0)
              previous_credit == prev_credit_var
              updated_credit == updated_credit_var
              s == save_transaction(DB, customer_var, items_tree, previous_credit)
          IN  \E writes \in IF faults THEN FormFaults(writes_needed(s.items_list))
                             ELSE {writes_needed(s.items_list)} :
                LET r == add_sale(s.db, date, s.customer_id, s.items_list, total_amount,
                                  cash_received, previous_credit, updated_credit,
                                  "sale", writes)
                    sync_raised == /\ app_mode = "online"
                                   /\ r.result # None
                                   /\ get_daily_sales_detail(r.db, date).raised
                    f == form_after_save(r.result, sync_raised, sales_form)
                IN  /\ Saved("sale", s, r, date, updated_credit, writes)
                    /\ customer_var' = f[1]
                    /\ prev_credit_var' = f[3]
                    /\ items_tree' = f[4]
                    /\ total_amount_var' = f[5]
                    /\ cash_received_var' = f[6]
                    /\ updated_credit_var' = f[7]
    /\ UNCHANGED <<customer_combo, purchase_form>>

SaveTransaction == SaveTransactionIn({"offline"}, FALSE, MaxFormTx)

TypeSupplier ==
    /\ \E name \in FormNames : supplier_var' = name
    /\ UNCHANGED <<supplier_combo, supplier_prev_credit_var, purchase_items_tree,
                   purchase_total_amount_var, purchase_cash_paid_var,
                   purchase_updated_credit_var, sales_form>>
    /\ Edited

SelectSupplier ==
    /\ \E name \in supplier_combo :
          /\ supplier_var' = name
          /\ supplier_prev_credit_var' = update_supplier_credit(DB, name)
    /\ UNCHANGED <<supplier_combo, purchase_items_tree, purchase_total_amount_var,
                   purchase_cash_paid_var, purchase_updated_credit_var, sales_form>>
    /\ Edited

AddPurchaseItemInline ==
    /\ Len(purchase_items_tree) < MaxFormItems
    /\ \E product_name \in FormProducts, quantity \in FormQtys, price \in FormPrices :
          /\ quantity > 0
          /\ purchase_items_tree' =
                Append(purchase_items_tree, tree_row(product_name, quantity, price))
    /\ purchase_total_amount_var' = update_sales_total(purchase_items_tree')
    /\ purchase_updated_credit_var' =
          calculate_totals(purchase_total_amount_var', purchase_cash_paid_var,
                           supplier_prev_credit_var)
    /\ UNCHANGED <<supplier_var, supplier_combo, supplier_prev_credit_var,
                   purchase_cash_paid_var, sales_form>>
    /\ Edited

RemovePurchaseItem ==
    /\ \E i \in DOMAIN purchase_items_tree :
          purchase_items_tree' = delete_row(purchase_items_tree, i)
    /\ purchase_total_amount_var' = update_sales_total(purchase_items_tree')
    /\ purchase_updated_credit_var' =
          calculate_totals(purchase_total_amount_var', purchase_cash_paid_var,
                           supplier_prev_credit_var)
    /\ UNCHANGED <<supplier_var, supplier_combo, supplier_prev_credit_var,
                   purchase_cash_paid_var, sales_form>>
    /\ Edited

ClearPurchaseItems ==
    /\ purchase_items_tree' = <<>>
    /\ purchase_total_amount_var' = update_sales_total(purchase_items_tree')
    /\ purchase_updated_credit_var' =
          calculate_totals(purchase_total_amount_var', purchase_cash_paid_var,
                           supplier_prev_credit_var)
    /\ UNCHANGED <<supplier_var, supplier_combo, supplier_prev_credit_var,
                   purchase_cash_paid_var, sales_form>>
    /\ Edited

EditCashPaid ==
    /\ \E text \in CashTexts : purchase_cash_paid_var' = text
    /\ purchase_updated_credit_var' =
          on_cash_received_change(purchase_total_amount_var, purchase_cash_paid_var',
                                  supplier_prev_credit_var)
    /\ UNCHANGED <<supplier_var, supplier_combo, supplier_prev_credit_var,
                   purchase_items_tree, purchase_total_amount_var, sales_form>>
    /\ Edited

SavePurchaseTransactionIn(Modes, faults, MaxSaved) ==
    /\ Len(transactions) < MaxSaved
    /\ supplier_var # ""
    /\ purchase_items_tree # <<>>
    /\ \E date \in FormDates, app_mode \in Modes :
          LET total_amount == purchase_total_amount_var
              cash_paid == safe_float(purchase_cash_paid_var, 0)
              previous_credit == supplier_prev_credit_var
              updated_credit == purchase_updated_credit_var
              s == save_purchase_transaction(DB, supplier_var, purchase_items_tree,
                                             previous_credit)
          IN  \E writes \in IF faults THEN FormFaults(writes_needed(s.items_list))
                             ELSE {writes_needed(s.items_list)} :
                LET r == add_purchase(s.db, date, s.customer_id, s.items_list,
                                      total_amount, cash_paid, previous_credit,
                                      updated_credit, writes)
                    sync_raised == /\ app_mode = "online"
                                   /\ r.result # None
                                   /\ get_daily_purchases_detail(r.db, date).raised
                    f == form_after_save(r.result, sync_raised, purchase_form)
                IN  /\ Saved("purchase", s, r, date, updated_credit, writes)
                    /\ supplier_var' = f[1]
                    /\ supplier_prev_credit_var' = f[3]
                    /\ purchase_items_tree' = f[4]
                    /\ purchase_total_amount_var' = f[5]
                    /\ purchase_cash_paid_var' = f[6]
                    /\ purchase_updated_credit_var' = f[7]
    /\ UNCHANGED <<supplier_combo, sales_form>>

SavePurchaseTransaction == SavePurchaseTransactionIn({"offline"}, FALSE, MaxFormTx)

NextForm ==
    \/ Restart
    \/ TypeCustomer
    \/ SelectCustomer
    \/ AddItemInline
    \/ RemoveItem
    \/ ClearItems
    \/ EditCashReceived
    \/ SaveTransaction
    \/ TypeSupplier
    \/ SelectSupplier
    \/ AddPurchaseItemInline
    \/ RemovePurchaseItem
    \/ ClearPurchaseItems
    \/ EditCashPaid
    \/ SavePurchaseTransaction

SpecForm == Init /\ [][NextForm]_vars

\* ---- the forms when a write statement of add_sale can raise, in either
\* application mode ---------------------------------------------------------
\* (the cash paid of the purchases form stays at its initial "0.00")
AppModes == {"offline", "online"}

MaxFaultTx == 1

SaveTransactionFault == SaveTransactionIn(AppModes, TRUE, MaxFaultTx)

SavePurchaseTransactionFault == SavePurchaseTransactionIn(AppModes, TRUE, MaxFaultTx)

NextFormFault ==
    \/ Restart
    \/ TypeCustomer
    \/ SelectCustomer
    \/ AddItemInline
    \/ RemoveItem
    \/ ClearItems
    \/ EditCashReceived
    \/ SaveTransactionFault
    \/ TypeSupplier
    \/ SelectSupplier
    \/ AddPurchaseItemInline
    \/ RemovePurchaseItem
    \/ ClearPurchaseItems
    \/ SavePurchaseTransactionFault

SpecFormFault == Init /\ [][NextFormFault]_vars

\* ==== properties ==========================================================
Committed == last.op \in {"sale", "purchase"} /\ last.result # None

Failed == last.op \in {"sale", "purchase"} /\ last.result = None

\* closing_stock == opening_stock + purchases - sales + adjustments
Balanced(row) ==
    row.closing_stock = row.opening_stock + row.purchases - row.sales + row.adjustments

\* the committed calls were made in non-decreasing date order
InDateOrder ==
    \A i, j \in DOMAIN transactions :
        i < j => transactions[i].date <= transactions[j].date

\* sum of the quantities of the lines of `items` that reference product p
quantity_of(items, p) ==
    SumSeq([i \in DOMAIN items |->
               IF items[i].product_id = p THEN items[i].quantity ELSE 0])

\* C1: a call of add_sale / add_purchase in which a write statement raises
\* (after the header insert, between two items, after a movement, after a
\* daily_stock write, at the credit update) returns None and leaves every
\* table exactly as it was before the call.
C1_FailedCallLeavesStore ==
    (last.op \in {"sale", "purchase"} /\ "writes" \in DOMAIN last)
        => (last.result = None /\ DB = last.pre)

\* a two-line call that raised at the credit update, after nine writes, on a
\* store that already held a committed transaction
C1_Witness ==
    /\ Failed
    /\ last.writes = 9
    /\ Len(last.pre.transactions) = 1
    /\ DB = last.pre

\* C2 as claimed: every daily_stock row balances after any sequence of
\* committed calls, whatever the order of their dates.
C2_EveryRowBalanced ==
    \A i \in DOMAIN daily_stock : Balanced(daily_stock[i])

\* C2 as amended: every daily_stock row balances as long as the committed
\* calls were made in non-decreasing date order.
C2_BalancedInDateOrder ==
    InDateOrder => \A i \in DOMAIN daily_stock : Balanced(daily_stock[i])

\* calls in date order on two dates left a row that was updated after its
\* creation and holds both purchases and sales
C2_Witness ==
    /\ InDateOrder
    /\ \E i, j \in DOMAIN daily_stock :
          /\ daily_stock[i].product_id = daily_stock[j].product_id
          /\ daily_stock[i].date < daily_stock[j].date
          /\ daily_stock[j].purchases > 0
          /\ daily_stock[j].sales > 0
          /\ daily_stock[j].opening_stock # 0
          /\ Balanced(daily_stock[j])

\* C3: after a committed sale every product that existed before the call has
\* its stock lowered by the summed quantity of the call's lines that reference
\* it; after a committed purchase it is raised by that sum.
C3_StockConservation ==
    Committed =>
        \A p \in DOMAIN last.pre.products :
            products[p].current_stock =
                IF last.op = "sale"
                THEN last.pre.products[p].current_stock - quantity_of(last.items, p)
                ELSE last.pre.products[p].current_stock + quantity_of(last.items, p)

\* a committed purchase of two lines of the same product, on a stock that was
\* not zero
C3_Witness ==
    /\ Committed
    /\ last.op = "purchase"
    /\ Len(last.items) = 2
    /\ last.items[1].product_id = last.items[2].product_id
    /\ last.pre.products[last.items[1].product_id].current_stock # 0
    /\ products[last.items[1].product_id].current_stock =
          last.pre.products[last.items[1].product_id].current_stock
              + last.items[1].quantity + last.items[2].quantity

\* C5: after a committed call the partner's credit_balance is the call's
\* updated_credit argument, which is also the updated_credit of the new
\* transactions row; it is not recomputed from the other arguments.
C5_CreditIsArgument ==
    Committed =>
        /\ customers[last.customer_id].credit_balance = last.updated_credit
        /\ transactions[last.result].updated_credit = last.updated_credit

\* a committed call whose updated_credit differs from
\* previous_credit + total_amount - cash_received
C5_Witness ==
    /\ Committed
    /\ LET t == transactions[last.result]
       IN  /\ t.updated_credit # t.previous_credit + t.total_amount - t.cash_received
           /\ customers[last.customer_id].credit_balance = t.updated_credit

\* the store without the daily_stock rows of one date: ledger data that was
\* brought in without snapshots
without_daily_stock(d, date) ==
    [d EXCEPT !.daily_stock = SelectSeq(@, LAMBDA row : row.date # date)]

\* the latest date that has a stock movement
latest_date(d) ==
    CHOOSE date \in {d.stock_movements[i].date : i \in DOMAIN d.stock_movements} :
        \A i \in DOMAIN d.stock_movements : d.stock_movements[i].date <= date

\* C6: for the latest date with activity, calculate_daily_inventory computed
\* from the stock movements alone returns what it returns when the
\* daily_stock rows of the date are present.
C6_FallbackMatchesSnapshot ==
    stock_movements # <<>> =>
        calculate_daily_inventory(without_daily_stock(DB, latest_date(DB)), latest_date(DB))
            = calculate_daily_inventory(DB, latest_date(DB))

\* C10: a purchase of q1 then a sale of q2 of one product on a date that had
\* no daily_stock row for it leave current_stock = s + q1 - q2, the single row
\* {opening s, purchases q1, sales q2, adjustments 0, closing s + q1 - q2},
\* and a reported net_change of q1 - q2.
RoundTrip ==
    /\ Committed
    /\ last.op = "sale"
    /\ prev.op = "purchase"
    /\ prev.result # None
    /\ last.date = prev.date
    /\ Len(prev.items) = 1
    /\ Len(last.items) = 1
    /\ prev.items[1].product_id = last.items[1].product_id
    /\ daily_stock_row(prev.pre.daily_stock, prev.date, prev.items[1].product_id) = None

C10_RoundTrip ==
    RoundTrip =>
        LET p == last.items[1].product_id
            D == last.date
            s == prev.pre.products[p].current_stock
            q1 == prev.items[1].quantity
            q2 == last.items[1].quantity
            R == {i \in DOMAIN daily_stock :
                     daily_stock[i].date = D /\ daily_stock[i].product_id = p}
        IN  /\ products[p].current_stock = s + q1 - q2
            /\ Cardinality(R) = 1
            /\ \A i \in R :
                  daily_stock[i] =
                      [date |-> D, product_id |-> p, opening_stock |-> s,
                       purchases |-> q1, sales |-> q2, adjustments |-> 0,
                       closing_stock |-> s + q1 - q2]
            /\ calculate_daily_inventory(DB, D).products[p].net_change = q1 - q2

\* the round trip on a stock s = 2 with q1 = 2 and q2 = 1: closing 3, net +1
C10_Witness ==
    /\ RoundTrip
    /\ prev.pre.products[last.items[1].product_id].current_stock = 2000
    /\ prev.items[1].quantity = 2000
    /\ last.items[1].quantity = 1000
    /\ products[last.items[1].product_id].current_stock = 3000

\* ---- transactions saved through the forms --------------------------------
\* sum of the subtotal column of the transaction_items rows of one transaction
subtotals_of(transaction_id) ==
    SumSeq([i \in DOMAIN transaction_items |->
               IF transaction_items[i].transaction_id = transaction_id
               THEN transaction_items[i].subtotal ELSE 0])

\* C4: every transaction saved through save_transaction or
\* save_purchase_transaction has
\* updated_credit == previous_credit + total_amount - cash settled, whatever
\* the order of the form events before the save.
C4_UpdatedCreditFormula ==
    \A t \in DOMAIN transactions :
        transactions[t].updated_credit =
            transactions[t].previous_credit + transactions[t].total_amount
                - transactions[t].cash_received

\* C7: every transaction saved through the forms has total_amount equal to
\* the sum of the subtotals of its transaction_items rows.
C7_TotalIsSumOfSubtotals ==
    \A t \in DOMAIN transactions :
        transactions[t].total_amount = subtotals_of(t)

\* C8: the partner of a transaction saved through the forms is, at the call
\* that records it, active and of the role of the transaction: a customer
\* for a sale, a supplier for a purchase.
C8_PartnerRoleMatches ==
    Committed =>
        LET partner == last.pre.customers[last.customer_id]
        IN  /\ partner.active = 1
            /\ partner.is_supplier = IF last.op = "sale" THEN 0 ELSE 1

\* C9: the previous_credit stored with a transaction saved through the forms
\* is the credit_balance its partner had immediately before the recording
\* call, and the stored updated_credit is the partner's credit_balance
\* immediately after it.
C9_CreditSnapshots ==
    Committed =>
        /\ transactions[last.result].previous_credit =
               last.pre.customers[last.customer_id].credit_balance
        /\ transactions[last.result].updated_credit =
               customers[last.customer_id].credit_balance

\* ---- the same product twice in one call ----------------------------------
\* the committed call had two lines, both of the same product
TwoLinesOneProduct ==
    /\ Committed
    /\ Len(last.items) = 2
    /\ last.items[1].product_id = last.items[2].product_id

\* the single line of the combined quantity
combined_line(items) ==
    <<[product_id |-> items[1].product_id,
       quantity |-> items[1].quantity + items[2].quantity,
       price |-> items[1].price]>>

\* the store the same call leaves when it is made with the combined line
combined_call ==
    add_sale(last.pre, last.date, last.customer_id, combined_line(last.items),
             items_total(combined_line(last.items)), 0, 0, last.updated_credit,
             last.op, writes_needed(combined_line(last.items))).db

\* C11: a call whose items hold the same product twice, with quantities q1
\* and q2, leaves the product's current_stock and its daily_stock row of the
\* date as the call with one line of q1 + q2 leaves them, and adds two
\* transaction_items rows and two stock_movements rows, one per line.
C11_DuplicateLinesAccumulate ==
    TwoLinesOneProduct =>
        LET p == last.items[1].product_id
            one == combined_call
            sign == IF last.op = "sale" THEN 0 - 1 ELSE 1
            n_items == Len(last.pre.transaction_items)
            n_moves == Len(last.pre.stock_movements)
        IN  /\ products[p].current_stock = one.products[p].current_stock
            /\ daily_stock_row(daily_stock, last.date, p) # None
            /\ daily_stock[daily_stock_row(daily_stock, last.date, p)] =
                  one.daily_stock[daily_stock_row(one.daily_stock, last.date, p)]
            /\ Len(transaction_items) = n_items + 2
            /\ Len(stock_movements) = n_moves + 2
            /\ \A k \in 1..2 :
                  /\ transaction_items[n_items + k].transaction_id = last.result
                  /\ transaction_items[n_items + k].product_id = p
                  /\ transaction_items[n_items + k].quantity = last.items[k].quantity
                  /\ stock_movements[n_moves + k].transaction_id = last.result
                  /\ stock_movements[n_moves + k].product_id = p
                  /\ stock_movements[n_moves + k].quantity_change =
                        sign * last.items[k].quantity

\* a sale of 1 and 2 units of one product on a date that already had a row
\* for it: the row's sales grew by 3
C11_Witness ==
    /\ TwoLinesOneProduct
    /\ last.op = "sale"
    /\ last.items[1].quantity = 1000
    /\ last.items[2].quantity = 2000
    /\ LET p == last.items[1].product_id
           r == daily_stock_row(last.pre.daily_stock, last.date, p)
       IN  /\ r # None
           /\ daily_stock[r].sales = last.pre.daily_stock[r].sales + 3000
           /\ products[p].current_stock = last.pre.products[p].current_stock - 3000

\* ---- one daily_stock row per (date, product) -----------------------------
\* the table holds a row for (date, product)
has_row(ds, date, product_id) ==
    \E i \in DOMAIN ds : ds[i].date = date /\ ds[i].product_id = product_id

\* products of the lines of the last call that had no row on its date
products_without_row ==
    {last.items[k].product_id : k \in {j \in DOMAIN last.items :
        ~has_row(last.pre.daily_stock, last.date, last.items[j].product_id)}}

\* C12: there is at most one daily_stock row per (date, product); a row
\* exists exactly for the pairs that have a recorded movement; a call inserts
\* a row only for a product that had none on its date, and otherwise updates
\* the row that was there.
C12_OneRowPerDateProduct ==
    /\ \A i, j \in DOMAIN daily_stock :
          (daily_stock[i].date = daily_stock[j].date
              /\ daily_stock[i].product_id = daily_stock[j].product_id) => i = j
    /\ \A m \in DOMAIN stock_movements :
          has_row(daily_stock, stock_movements[m].date, stock_movements[m].product_id)
    /\ \A i \in DOMAIN daily_stock :
          \E m \in DOMAIN stock_movements :
              /\ stock_movements[m].date = daily_stock[i].date
              /\ stock_movements[m].product_id = daily_stock[i].product_id
    /\ Committed =>
          /\ Len(daily_stock) =
                Len(last.pre.daily_stock) + Cardinality(products_without_row)
          /\ \A i \in DOMAIN last.pre.daily_stock :
                /\ daily_stock[i].date = last.pre.daily_stock[i].date
                /\ daily_stock[i].product_id = last.pre.daily_stock[i].product_id
                /\ daily_stock[i].opening_stock = last.pre.daily_stock[i].opening_stock

\* a call of two lines, one of a product that had a row on the date and one
\* of a product that had none: one row was inserted, the other grew
C12_Witness ==
    /\ Committed
    /\ Len(last.items) = 2
    /\ Cardinality(products_without_row) = 1
    /\ Len(daily_stock) = Len(last.pre.daily_stock) + 1
    /\ \E i \in DOMAIN last.pre.daily_stock :
          /\ daily_stock[i].date = last.date
          /\ daily_stock[i] # last.pre.daily_stock[i]

\* ---- requests that should not be recorded --------------------------------
\* the item list is empty or holds a line whose quantity is not positive
invalid_items(items) ==
    \/ items = <<>>
    \/ \E k \in DOMAIN items : items[k].quantity <= 0

\* C13: a call of add_sale / add_purchase with an empty item list, or with a
\* line whose quantity is not positive, is refused before anything is
\* written: it returns no transaction id and leaves every table as it was.
C13_InvalidRequestRefused ==
    (last.op \in {"sale", "purchase"} /\ "items" \in DOMAIN last
        /\ invalid_items(last.items))
        => (last.result = None /\ DB = last.pre)

\* ---- the ledger and the master data across later operations --------------
MasterOps == {"add_or_update_product", "add_or_update_customer",
              "edit_product", "delete_product"}

\* every row of the table is still there, with the same fields, after the step
kept(table, table_after) ==
    \A i \in DOMAIN table : i \in DOMAIN table_after /\ table_after[i] = table[i]

\* C14: the ledger is append-only: no step of the program (a later recording,
\* an upsert, an edit of a product, a soft delete) changes or removes a
\* committed row of transactions, transaction_items or stock_movements.
C14_LedgerAppendOnly ==
    [][/\ kept(transactions, transactions')
       /\ kept(transaction_items, transaction_items')
       /\ kept(stock_movements, stock_movements')]_vars

\* a second transaction was recorded after a product of the first one was
\* soft-deleted, and the first transaction's rows are as they were
C14_Witness ==
    /\ Committed
    /\ Len(transactions) = 2
    /\ transactions[1] = last.pre.transactions[1]
    /\ \E i \in DOMAIN transaction_items :
          /\ transaction_items[i].transaction_id = 1
          /\ products[transaction_items[i].product_id].active = 0
          /\ \E m \in DOMAIN stock_movements :
                /\ stock_movements[m].transaction_id = 1
                /\ stock_movements[m].product_id = transaction_items[i].product_id

\* C15: no step removes a products row; add_or_update_product on an existing
\* name, do_edit and delete_product leave every row's id and current_stock
\* as they were, and delete_product only sets active = 0 on one row.
C15_ProductsKeptStockFramed ==
    [][/\ Len(products') >= Len(products)
       /\ last'.op \in MasterOps =>
             \A i \in DOMAIN products :
                 products'[i].current_stock = products[i].current_stock
       /\ last'.op = "add_or_update_product" =>
             \A i \in DOMAIN products :
                 /\ products'[i].name = products[i].name
                 /\ products'[i].active = products[i].active
       /\ last'.op = "edit_product" =>
             /\ Len(products') = Len(products)
             /\ \A i \in DOMAIN products : products'[i].active = products[i].active
       /\ last'.op = "delete_product" =>
             \E p \in DOMAIN products :
                 products' = [products EXCEPT ![p].active = 0]]_vars

\* a product that holds stock was soft-deleted and still holds it
C15_Witness ==
    /\ last.op = "delete_product"
    /\ \E p \in DOMAIN products :
          /\ products[p].active = 0
          /\ products[p].current_stock # 0
          /\ products[p].price = 2000

lists_transactions(records, date, transaction_type) ==
    LET T == {t \in DOMAIN transactions :
                 /\ transactions[t].date = date
                 /\ transactions[t].transaction_type = transaction_type}
    IN  /\ Len(records) = Cardinality(T)
        /\ {records[k].id : k \in DOMAIN records} = T
        /\ \A k, l \in DOMAIN records : k < l => records[k].id < records[l].id
        /\ \A k \in DOMAIN records :
              [i \in DOMAIN records[k].items |->
                  [product_id |-> records[k].items[i].product_id,
                   quantity |-> records[k].items[i].quantity]]
              = LET rows == SelectSeq(transaction_items,
                               LAMBDA r : r.transaction_id = records[k].id)
                IN  [i \in DOMAIN rows |->
                        [product_id |-> rows[i].product_id,
                         quantity |-> rows[i].quantity]]

\* C16: get_daily_sales_detail(date) returns one record per persisted sale
\* dated `date` and no purchase, in ascending transaction id, each with the
\* items of its transaction in insertion order; get_daily_purchases_detail
\* does the same for the purchases.
C16_DetailListsTransactions ==
    transactions # <<>> =>
        \A date \in Dates :
            /\ ~get_daily_sales_detail(DB, date).raised
            /\ lists_transactions(get_daily_sales_detail(DB, date).value, date, "sale")
            /\ ~get_daily_purchases_detail(DB, date).raised
            /\ lists_transactions(get_daily_purchases_detail(DB, date).value,
                                  date, "purchase")

\* C18: when add_sale / add_purchase returns the failure signal to the save
\* handler, the form (partner name, item lines, cash, previous and updated
\* credit) of both tabs is what it was, and nothing was recorded; a save
\* handler changes its form only after a recorded transaction, whose result
\* is the id of the row it appended to transactions.
C18_FormKeptOnFailure ==
    [][last'.op \in {"sale", "purchase"} =>
         /\ last'.result = None =>
               /\ sales_form' = sales_form
               /\ purchase_form' = purchase_form
               /\ transactions' = transactions
         /\ (sales_form' # sales_form \/ purchase_form' # purchase_form) =>
               /\ last'.result # None
               /\ last'.result = Len(transactions')
               /\ Len(transactions') = Len(transactions) + 1]_vars

\* a save of a filled sales form failed after some of its writes
C18_Witness ==
    /\ Failed
    /\ last.op = "sale"
    /\ last.writes > 0
    /\ customer_var # ""
    /\ items_tree # <<>>
    /\ cash_received_var # "0.00"

\* ---- creation of the daily_stock row -------------------------------------
\* the lines of the last call whose product had no daily_stock row for the
\* date before the call and is on no other line of the call
creating_lines ==
    {i \in DOMAIN last.items :
        /\ ~has_row(last.pre.daily_stock, last.date, last.items[i].product_id)
        /\ \A j \in DOMAIN last.items :
              last.items[j].product_id = last.items[i].product_id => j = i}

\* C20: an item of a recorded sale / purchase whose (date, product) had no
\* daily_stock row creates the row with opening_stock = the product's
\* current_stock before the item, purchases = quantity for a purchase else 0,
\* sales = quantity for a sale else 0, adjustments = 0 and closing_stock = the
\* product's current_stock after the item.
C20_RowCreatedFromStock ==
    Committed =>
        \A i \in creating_lines :
            LET item == last.items[i]
                R == {r \in DOMAIN daily_stock :
                         /\ daily_stock[r].date = last.date
                         /\ daily_stock[r].product_id = item.product_id}
            IN  /\ R # {}
                /\ \A r \in R :
                      /\ r > Len(last.pre.daily_stock)
                      /\ daily_stock[r].opening_stock
                            = last.pre.products[item.product_id].current_stock
                      /\ daily_stock[r].purchases
                            = (IF last.op = "purchase" THEN item.quantity ELSE 0)
                      /\ daily_stock[r].sales
                            = (IF last.op = "sale" THEN item.quantity ELSE 0)
                      /\ daily_stock[r].adjustments = 0
                      /\ daily_stock[r].closing_stock
                            = products[item.product_id].current_stock
                      /\ daily_stock[r].closing_stock
                            = daily_stock[r].opening_stock
                                + daily_stock[r].purchases - daily_stock[r].sales

\* a sale of two products, the second one with stock on hand, a row on an
\* earlier date and none on the date of the sale
C20_Witness ==
    /\ Committed
    /\ last.op = "sale"
    /\ Len(last.items) = 2
    /\ 2 \in creating_lines
    /\ last.pre.products[last.items[2].product_id].current_stock > 0
    /\ \E r \in DOMAIN last.pre.daily_stock :
          last.pre.daily_stock[r].product_id = last.items[2].product_id

\* ---- what a query can see ------------------------------------------------
Reads == {"get_customer_credit", "calculate_daily_inventory",
          "get_daily_sales_detail", "get_daily_purchases_detail"}

\* the transaction_items rows of a transaction
items_of(t) ==
    {i \in DOMAIN transaction_items : transaction_items[i].transaction_id = t}

\* the item lines of transaction t with the product and quantity of line i
lines_like(t, i) ==
    {j \in items_of(t) :
        /\ transaction_items[j].product_id = transaction_items[i].product_id
        /\ transaction_items[j].quantity = transaction_items[i].quantity}

\* the stock_movements rows with the product of item line i, the id and type
\* of its transaction t and its quantity, signed by the type
movements_like(t, i) ==
    {m \in DOMAIN stock_movements :
        /\ stock_movements[m].transaction_id = t
        /\ stock_movements[m].product_id = transaction_items[i].product_id
        /\ stock_movements[m].movement_type = transactions[t].transaction_type
        /\ stock_movements[m].quantity_change
              = (IF transactions[t].transaction_type = "purchase"
                 THEN transaction_items[i].quantity
                 ELSE 0 - transaction_items[i].quantity)}

\* no transaction_items or stock_movements row of a transaction that is not
\* persisted
no_orphan_rows ==
    /\ \A i \in DOMAIN transaction_items :
          transaction_items[i].transaction_id \in DOMAIN transactions
    /\ \A m \in DOMAIN stock_movements :
          stock_movements[m].transaction_id \in DOMAIN transactions

updating_lines ==
    {i \in DOMAIN last.items :
        /\ has_row(last.pre.daily_stock, last.date, last.items[i].product_id)
        /\ \A j \in DOMAIN last.items :
              last.items[j].product_id = last.items[i].product_id => j = i}

\* C21: an item of a recorded sale / purchase whose (date, product) already
\* has a daily_stock row adds its quantity to purchases (purchase) or to
\* sales (sale), overwrites closing_stock with the product's current_stock
\* after the item, and leaves opening_stock, adjustments and the other
\* counter of the row as they were.
C21_RowUpdatedInPlace ==
    Committed =>
        /\ Len(daily_stock) >= Len(last.pre.daily_stock)
        /\ \A i \in updating_lines :
              LET item == last.items[i]
              IN  \A r \in DOMAIN last.pre.daily_stock :
                    LET old == last.pre.daily_stock[r]
                        new == daily_stock[r]
                    IN  (old.date = last.date /\ old.product_id = item.product_id) =>
                          /\ new.date = old.date
                          /\ new.product_id = old.product_id
                          /\ new.opening_stock = old.opening_stock
                          /\ new.adjustments = old.adjustments
                          /\ new.purchases = old.purchases
                                + (IF last.op = "purchase" THEN item.quantity ELSE 0)
                          /\ new.sales = old.sales
                                + (IF last.op = "sale" THEN item.quantity ELSE 0)
                          /\ new.closing_stock = products[item.product_id].current_stock

\* a sale on an existing row of an earlier date than the product's latest
\* movement: the closing_stock written is the running stock, which is not
\* opening + purchases - sales + adjustments of the row
C21_Witness ==
    /\ Committed
    /\ last.op = "sale"
    /\ updating_lines # {}
    /\ \E i \in updating_lines, r \in DOMAIN daily_stock :
          /\ daily_stock[r].date = last.date
          /\ daily_stock[r].product_id = last.items[i].product_id
          /\ daily_stock[r].purchases > 0
          /\ daily_stock[r].closing_stock
                # daily_stock[r].opening_stock + daily_stock[r].purchases
                    - daily_stock[r].sales + daily_stock[r].adjustments

\* ---- rows inserted by one call -------------------------------------------
\* C22: a recorded add_sale / add_purchase with n items appends exactly one
\* transactions row, whose id it returns, exactly n transaction_items rows
\* (subtotal = quantity x price) and exactly n stock_movements rows, in the
\* order of the items; the i-th movement has the call's date, the i-th item's
\* product, quantity_change = +quantity for a purchase and -quantity for a
\* sale, movement_type = the kind and transaction_id = the returned id.
C22_RowsPerItemInOrder ==
    Committed =>
        LET n == Len(last.items)
            ti == Len(last.pre.transaction_items)
            sm == Len(last.pre.stock_movements)
        IN  /\ Len(transactions) = Len(last.pre.transactions) + 1
            /\ last.result = Len(transactions)
            /\ SubSeq(transactions, 1, Len(last.pre.transactions)) = last.pre.transactions
            /\ transactions[last.result].transaction_type = last.op
            /\ transactions[last.result].date = last.date
            /\ Len(transaction_items) = ti + n
            /\ SubSeq(transaction_items, 1, ti) = last.pre.transaction_items
            /\ Len(stock_movements) = sm + n
            /\ SubSeq(stock_movements, 1, sm) = last.pre.stock_movements
            /\ \A i \in 1..n :
                  /\ transaction_items[ti + i].transaction_id = last.result
                  /\ transaction_items[ti + i].product_id = last.items[i].product_id
                  /\ transaction_items[ti + i].quantity = last.items[i].quantity
                  /\ transaction_items[ti + i].unit_price = last.items[i].price
                  /\ transaction_items[ti + i].subtotal * 1000
                        = last.items[i].quantity * last.items[i].price
                  /\ stock_movements[sm + i].date = last.date
                  /\ stock_movements[sm + i].product_id = last.items[i].product_id
                  /\ stock_movements[sm + i].quantity_change
                        = (IF last.op = "purchase" THEN last.items[i].quantity
                           ELSE 0 - last.items[i].quantity)
                  /\ stock_movements[sm + i].movement_type = last.op
                  /\ stock_movements[sm + i].transaction_id = last.result

\* a sale of two lines of different products and quantities, recorded after
\* an earlier transaction
C22_Witness ==
    /\ Committed
    /\ last.op = "sale"
    /\ last.result = 2
    /\ Len(last.items) = 2
    /\ last.items[1].product_id > last.items[2].product_id
    /\ last.items[1].quantity < last.items[2].quantity
    /\ last.pre.stock_movements # <<>>

\* ---- the report computed from the movements -------------------------------
\* the report of a date whose daily_stock rows are missing
fallback_report(date) ==
    calculate_daily_inventory(without_daily_stock(DB, date), date)

\* the movements of product p dated `date`, and its first one
movements_on(date, p) ==
    {m \in DOMAIN stock_movements :
        stock_movements[m].date = date /\ stock_movements[m].product_id = p}

first_movement(date, p) ==
    CHOOSE m \in movements_on(date, p) : \A k \in movements_on(date, p) : m <= k

\* the stock product p had when its first movement dated `date` was recorded:
\* 0 at creation plus the quantity_change of its movements recorded before
stock_before(date, p) ==
    LET I == {m \in DOMAIN stock_movements :
                 /\ stock_movements[m].product_id = p
                 /\ m < first_movement(date, p)}
    IN  SumOver(I, [m \in I |-> stock_movements[m].quantity_change])

\* net quantity of the movements of p dated `date`
net_on(date, p) ==
    SumOver(movements_on(date, p),
            [m \in movements_on(date, p) |-> stock_movements[m].quantity_change])

active_products == {p \in DOMAIN products : products[p].active = 1}

\* closing_stock = current_stock and opening_stock = closing_stock - the net
\* of the movements of the date, for each active product
fallback_formula(date) ==
    LET r == fallback_report(date).products
    IN  /\ DOMAIN r = active_products
        /\ \A p \in active_products :
              /\ r[p].closing_stock = products[p].current_stock
              /\ r[p].opening_stock = r[p].closing_stock - net_on(date, p)

\* C23 as stated: on the fallback path the report has, for each active
\* product, closing_stock = current_stock and opening_stock = closing_stock -
\* the net of its movements dated D, and this opening_stock is the stock the
\* product had before its first movement dated D whenever no movement of the
\* product is dated after D.
C23_OpeningWhenNoneDatedAfter ==
    \A date \in Dates :
        /\ fallback_formula(date)
        /\ \A p \in active_products :
              (/\ movements_on(date, p) # {}
               /\ \A m \in DOMAIN stock_movements :
                     stock_movements[m].product_id = p
                        => stock_movements[m].date <= date)
              => fallback_report(date).products[p].opening_stock = stock_before(date, p)

\* C23: on the fallback path the report has, for each active product,
\* closing_stock = current_stock and opening_stock = closing_stock - the net
\* of its movements dated D, and this opening_stock is the stock the product
\* had before its first movement dated D whenever every movement of the
\* product recorded after that one is dated D.
C23_OpeningWhenNoneRecordedAfter ==
    \A date \in Dates :
        /\ fallback_formula(date)
        /\ \A p \in active_products :
              (/\ movements_on(date, p) # {}
               /\ \A m \in DOMAIN stock_movements :
                     (stock_movements[m].product_id = p /\ m > first_movement(date, p))
                        => stock_movements[m].date = date)
              => fallback_report(date).products[p].opening_stock = stock_before(date, p)

\* one product with movements dated 1 and then 2: the report of date 2 opens
\* with the stock before the date's first movement, which is not 0, and the
\* report of date 1, which has a movement dated after it, does not
C23_Witness ==
    \E p \in active_products :
        /\ movements_on(1, p) # {}
        /\ movements_on(2, p) # {}
        /\ first_movement(1, p) < first_movement(2, p)
        /\ stock_before(2, p) # 0
        /\ fallback_report(2).products[p].opening_stock = stock_before(2, p)
        /\ fallback_report(1).products[p].opening_stock # stock_before(1, p)

\* ---- partners and products created by a save ------------------------------
\* the partner name, previous credit and item rows of the form a save reads
form_of(transaction_type) ==
    IF transaction_type = "sale"
    THEN [name |-> customer_var, previous_credit |-> prev_credit_var,
          tree |-> items_tree, role |-> 0]
    ELSE [name |-> supplier_var, previous_credit |-> supplier_prev_credit_var,
          tree |-> purchase_items_tree, role |-> 1]

\* the first row of the tree that names the product, and the summed quantity
\* of the rows that name it
first_row(tree, product_name) ==
    CHOOSE i \in DOMAIN tree :
        /\ tree[i].product_name = product_name
        /\ \A j \in DOMAIN tree : tree[j].product_name = product_name => i <= j

named_quantity(tree, product_name) ==
    SumSeq([i \in DOMAIN tree |->
               IF tree[i].product_name = product_name THEN tree[i].quantity ELSE 0])

\* C24: a save that names a partner or a product of which the store has no
\* row does not fail: the partner is created with the role of the kind and
\* a balance equal to the form's previous credit, each missing product is
\* created with the price of its line (of the first line that names it) and
\* stock 0, and the transaction is recorded against the created rows.
C24_MissingRowsCreated ==
    [][last'.op \in {"sale", "purchase"} =>
         LET f == form_of(last'.op)
             t == last'.result
         IN  /\ t # None
             /\ id_by_name(customers, f.name) = None =>
                   LET c == Len(customers) + 1
                   IN  /\ Len(last'.pre.customers) = c
                       /\ last'.pre.customers[c] =
                             [name |-> f.name, credit_balance |-> f.previous_credit,
                              active |-> 1, is_supplier |-> f.role]
                       /\ transactions'[t].customer_id = c
                       /\ customers'[c].name = f.name
                       /\ customers'[c].is_supplier = f.role
             /\ \A i \in DOMAIN f.tree :
                   id_by_name(products, f.tree[i].product_name) = None =>
                     \E p \in DOMAIN last'.pre.products :
                        /\ p > Len(products)
                        /\ last'.pre.products[p] =
                              [name |-> f.tree[i].product_name,
                               price |-> f.tree[first_row(f.tree, f.tree[i].product_name)].price,
                               current_stock |-> 0, active |-> 1]
                        /\ last'.items[i].product_id = p
                        /\ \E k \in DOMAIN transaction_items' :
                              /\ transaction_items'[k].transaction_id = t
                              /\ transaction_items'[k].product_id = p
                        /\ products'[p].current_stock
                              = (IF last'.op = "sale"
                                 THEN 0 - named_quantity(f.tree, f.tree[i].product_name)
                                 ELSE named_quantity(f.tree, f.tree[i].product_name))]_vars

\* the second save, a purchase, created its supplier with a balance that is
\* not 0 (the previous credit left in the form by a selection); the first
\* save created the product
C24_Witness ==
    /\ Committed
    /\ last.op = "purchase"
    /\ last.result = 2
    /\ last.customer_id = 2
    /\ transactions[1].customer_id = 1
    /\ last.pre.customers[2].credit_balance # 0
    /\ customers[2].is_supplier = 1
    /\ Len(products) = 1

\* ---- the movement log and the running stock -------------------------------
\* the stock_movements rows of product p
movements_of(p) ==
    {m \in DOMAIN stock_movements : stock_movements[m].product_id = p}

\* C25: after any sequence of operations every product's current_stock is
\* its stock at creation, 0, plus the sum of quantity_change over all the
\* stock_movements rows of the product.
C25_StockIsSumOfMovements ==
    \A p \in DOMAIN products :
        products[p].current_stock
            = SumOver(movements_of(p),
                      [m \in movements_of(p) |-> stock_movements[m].quantity_change])

\* a product with two movements that was deleted with stock left, next to
\* a product without movements
C25_Witness ==
    \E p, q \in DOMAIN products :
        /\ products[p].active = 0
        /\ products[p].current_stock > 0
        /\ Cardinality(movements_of(p)) = 2
        /\ movements_of(q) = {}

\* ---- daily_stock against the movements of the day -------------------------
\* summed quantity of the movements of one kind of product p dated `date`
moved_on(date, p, movement_type) ==
    LET I == {m \in movements_on(date, p) :
                 stock_movements[m].movement_type = movement_type}
    IN  SumOver(I, [m \in I |->
            IF movement_type = "sale" THEN 0 - stock_movements[m].quantity_change
            ELSE stock_movements[m].quantity_change])

\* C26: after any sequence of recorded calls a daily_stock row exists for
\* (date, product) if and only if a stock_movements row exists for (date,
\* product); its purchases is the summed quantity of the purchase movements
\* of the product on the date and its sales that of the sale movements.
C26_RowSumsMovements ==
    /\ \A date \in Dates, p \in DOMAIN products :
          has_row(daily_stock, date, p) <=> movements_on(date, p) # {}
    /\ \A i \in DOMAIN daily_stock :
          /\ movements_on(daily_stock[i].date, daily_stock[i].product_id) # {}
          /\ daily_stock[i].purchases
                = moved_on(daily_stock[i].date, daily_stock[i].product_id, "purchase")
          /\ daily_stock[i].sales
                = moved_on(daily_stock[i].date, daily_stock[i].product_id, "sale")

\* a row that sums two purchase movements of different quantities and a
\* sale movement of its day
C26_Witness ==
    \E i \in DOMAIN daily_stock :
        LET date == daily_stock[i].date
            p == daily_stock[i].product_id
        IN  /\ Cardinality(movements_on(date, p)) = 3
            /\ daily_stock[i].purchases > daily_stock[i].sales
            /\ daily_stock[i].sales > 0
            /\ daily_stock[i].purchases = 3000

\* ---- what a recorded call leaves alone ------------------------------------
\* the products of the lines of the last call
products_named == {last.items[i].product_id : i \in DOMAIN last.items}

\* C27: a recorded add_sale / add_purchase leaves the current_stock of every
\* product that is not among its items, the credit_balance of every partner
\* other than its partner, and every daily_stock row whose (date, product) is
\* not (the call's date, a product among its items) as they were.
C27_OnlyNamedRowsChange ==
    Committed =>
        /\ DOMAIN products = DOMAIN last.pre.products
        /\ \A p \in DOMAIN products :
              p \notin products_named => products[p] = last.pre.products[p]
        /\ DOMAIN customers = DOMAIN last.pre.customers
        /\ \A c \in DOMAIN customers :
              c # last.customer_id => customers[c] = last.pre.customers[c]
        /\ \A r \in DOMAIN last.pre.daily_stock :
              (last.pre.daily_stock[r].date # last.date
                  \/ last.pre.daily_stock[r].product_id \notin products_named)
              => daily_stock[r] = last.pre.daily_stock[r]

\* a call on one product and one partner while another product has stock and
\* a row on the same date, and another partner has a balance
C27_Witness ==
    /\ Committed
    /\ \E p \in DOMAIN products :
          /\ p \notin products_named
          /\ products[p].current_stock # 0
          /\ has_row(daily_stock, last.date, p)
    /\ \E c \in DOMAIN customers :
          /\ c # last.customer_id
          /\ customers[c].credit_balance # 0
          /\ customers[c].credit_balance # last.updated_credit

\* ---- stock carried from day to day ----------------------------------------
\* the daily_stock rows of the product of row i with an earlier date
earlier_rows(i) ==
    {j \in DOMAIN daily_stock :
        /\ daily_stock[j].product_id = daily_stock[i].product_id
        /\ daily_stock[j].date < daily_stock[i].date}

\* the stock carried into row i: the closing_stock of the row of the
\* product's previous date with activity, 0 when there is none
carried_stock(i) ==
    IF earlier_rows(i) = {} THEN 0
    ELSE LET j == CHOOSE k \in earlier_rows(i) :
                      \A l \in earlier_rows(i) : daily_stock[l].date <= daily_stock[k].date
         IN  daily_stock[j].closing_stock

\* C28: when the calls are recorded in non-decreasing date order, the
\* opening_stock of every daily_stock row is the closing_stock of the
\* product's row for its previous date with activity, or the product's
\* initial stock, 0, when there is none.
C28_StockCarriedOver ==
    InDateOrder =>
        \A i \in DOMAIN daily_stock : daily_stock[i].opening_stock = carried_stock(i)

\* two calls on one date and then one on the next date, whose row opens with
\* the stock the first date closed with
C28_Witness ==
    /\ InDateOrder
    /\ Len(transactions) = 3
    /\ \E i \in DOMAIN daily_stock :
          /\ earlier_rows(i) # {}
          /\ daily_stock[i].opening_stock # 0
          /\ daily_stock[i].opening_stock = carried_stock(i)
          /\ \E j \in earlier_rows(i) :
                daily_stock[j].purchases > 0 /\ daily_stock[j].sales > 0

\* ---- the shared connection -------------------------------------------------
\* C29: after any sequence of operations that includes export_to_excel (also
\* through backup_current_date / backup_date_range) or backup_full_database,
\* connect() returns an open connection: a following add_sale /
\* add_purchase with valid arguments or a following query does not fail on
\* the connection.
C29_HandleStaysUsable ==
    /\ connect(connection) = "open"
    /\ last.op \in {"sale", "purchase", "get_customer_credit"}
          => "raised" \notin DOMAIN last

\* ---- existing partners across a save ---------------------------------------
\* C30: a save of a sale or a purchase leaves is_supplier of every partner
\* that existed before it as it was, and its create-if-missing upsert does
\* not overwrite the credit_balance of such a partner (the balance as the
\* save hands the store to add_sale is the balance before the save).
C30_ExistingPartnerKept ==
    [][last'.op \in {"sale", "purchase"} =>
         \A c \in DOMAIN customers :
             /\ customers'[c].is_supplier = customers[c].is_supplier
             /\ last'.pre.customers[c].is_supplier = customers[c].is_supplier
             /\ last'.pre.customers[c].credit_balance = customers[c].credit_balance]_vars

====
